---- MODULE Spec2Model ----
(***************************************************************************)
(* fedora-update-notifier (src/src/main.rs).                               *)
(*                                                                         *)
(* Strings are sequences of one-character strings, so that the splitting   *)
(* done by the identifier parsers, the byte-wise ordering used by sort()   *)
(* and the joins are computed rather than assumed.  The program is the     *)
(* single function main(); its steps are the actions of Next.  The parsers *)
(* are pure functions, exercised on their own by NextParse.                *)
(***************************************************************************)
EXTENDS Integers, Sequences, FiniteSets, TLC

VARIABLES
    pc,                 \* position of main()
    error,              \* the Err(String) main returned ("" while none)
    config,             \* result of get_config(), main.rs:202
    matches,            \* parsed command line, main.rs:200
    username,           \* Option<String>, main.rs:204
    interests,          \* Option<Vec<String>>, main.rs:205
    release,            \* "F<n>", main.rs:247
    packages,           \* Vec<NVR> of installed packages, main.rs:283
    fetched,            \* answer of the bodhi query, main.rs:302; kept as it
                        \* was fetched after main.rs:310 has consumed it
    updates,            \* the answer after the authorship filter, main.rs:310
    relevant_updates,   \* main.rs:316
    installed_packages, \* main.rs:353 (the feedback-pending names)
    pending_updates,    \* main.rs:396 (the interesting-pending records)
    notifications,      \* notifications the desktop displayed
    console,            \* lines written to stdout
    input,              \* argument of the parser under test
    fields,             \* the parts `input` was formatted from (round trip)
    call,               \* which parser was applied to `input`
    parsed              \* what it returned

vars == <<pc, error, config, matches, username, interests, release, packages,
          fetched, updates, relevant_updates, installed_packages, pending_updates,
          notifications, console, input, fields, call, parsed>>

mainVars == <<pc, error, config, matches, username, interests, release,
              packages, fetched, updates, relevant_updates, installed_packages,
              pending_updates, notifications, console>>

parseVars == <<input, fields, call, parsed>>

----------------------------------------------------------------------------
(* Bounds of the model.                                                    *)

\* longest string handed to the parsers by NextParse
MaxLen == 7
\* most characters in the six parts of a formatted file name (round trip)
MaxPartsLen == 4
\* most lines in the output of dnf repoquery
MaxLines == 2
\* most update records in the answer of bodhi
MaxUpdates == 2
\* most builds of one update record
MaxBuilds == 2

----------------------------------------------------------------------------
(* Strings.                                                                *)

\* The characters in use, in ascending byte order (u8 comparison of str).
CharOrder ==
    <<"\n", ",", "-", ".", "0", "1", "2", "4", ":", "F", "U",
      "a", "b", "c", "e", "f", "m", "o", "p", "r", "s", "u", "y">>

Ord(c) == CHOOSE i \in 1..Len(CharOrder) : CharOrder[i] = c

\* All strings over `alphabet` of length at most n.
RECURSIVE StringsUpTo(_, _)
StringsUpTo(alphabet, n) ==
    IF n = 0 THEN {<<>>}
    ELSE LET shorter == StringsUpTo(alphabet, n - 1)
         IN  shorter \cup {Append(s, c) : s \in shorter, c \in alphabet}

Contains(s, c) == \E i \in 1..Len(s) : s[i] = c

\* str::cmp: lexicographic on bytes; a proper prefix is smaller.
RECURSIVE StrLess(_, _)
StrLess(s, t) ==
    IF t = <<>> THEN FALSE
    ELSE IF s = <<>> THEN TRUE
    ELSE IF s[1] # t[1] THEN Ord(s[1]) < Ord(t[1])
    ELSE StrLess(Tail(s), Tail(t))

\* str::rsplitn(n, c): at most n pieces, cut from the right, last piece first.
RECURSIVE RSplitN(_, _, _)
RSplitN(s, n, c) ==
    IF n = 0 THEN <<>>
    ELSE IF n = 1 \/ ~Contains(s, c) THEN <<s>>
    ELSE LET i == CHOOSE k \in 1..Len(s) :
                      s[k] = c /\ \A j \in (k + 1)..Len(s) : s[j] # c
         IN  <<SubSeq(s, i + 1, Len(s))>> \o RSplitN(SubSeq(s, 1, i - 1), n - 1, c)

\* str::split(c): every piece, left to right.
RECURSIVE Split(_, _)
Split(s, c) ==
    IF ~Contains(s, c) THEN <<s>>
    ELSE LET i == CHOOSE k \in 1..Len(s) :
                      s[k] = c /\ \A j \in 1..(k - 1) : s[j] # c
         IN  <<SubSeq(s, 1, i - 1)>> \o Split(SubSeq(s, i + 1, Len(s)), c)

\* str::trim for the one whitespace character in use.
RECURSIVE Trim(_)
Trim(s) ==
    IF s = <<>> THEN s
    ELSE IF s[1] = "\n" THEN Trim(Tail(s))
    ELSE IF s[Len(s)] = "\n" THEN Trim(SubSeq(s, 1, Len(s) - 1))
    ELSE s

\* [&str]::join(sep)
RECURSIVE Join(_, _)
Join(strs, sep) ==
    IF strs = <<>> THEN <<>>
    ELSE IF Len(strs) = 1 THEN strs[1]
    ELSE strs[1] \o sep \o Join(Tail(strs), sep)

----------------------------------------------------------------------------
(* Result<_, String> of the parsers.                                       *)

Ok(val) == [ok |-> TRUE, val |-> val, err |-> ""]
Err(msg) == [ok |-> FALSE, val |-> <<>>, err |-> msg]

NevraError == "Unexpected error when parsing NEVRAs"
DnfError == "Unexpected error when parsing dnf output"

----------------------------------------------------------------------------
(* The identifier parsers.                                                 *)

\* The (e, v) of main.rs:62-69: every ':' splits, the first two pieces are kept.
EpochVersion(ev) ==
    IF Contains(ev, ":")
    THEN LET e_v == Split(ev, ":") IN <<e_v[1], e_v[2]>>
    ELSE <<<<"0">>, ev>>

\* str::splitn(n, c): at most n pieces, cut from the left.
RECURSIVE SplitN(_, _, _)
SplitN(s, n, c) ==
    IF n = 0 THEN <<>>
    ELSE IF n = 1 \/ ~Contains(s, c) THEN <<s>>
    ELSE LET i == CHOOSE k \in 1..Len(s) :
                      s[k] = c /\ \A j \in 1..(k - 1) : s[j] # c
         IN  <<SubSeq(s, 1, i - 1)>> \o SplitN(SubSeq(s, i + 1, Len(s)), n - 1, c)

\* parse_nevra cutting name-[epoch:]version-release from the left (splitn for
\* rsplitn at main.rs:51)
parse_nevra_splitn(nevra) ==
    LET nevr_a == RSplitN(nevra, 2, ".") IN
    IF Len(nevr_a) # 2 THEN Err(NevraError)
    ELSE LET a == nevr_a[1]
             nevr == nevr_a[2]
             n_ev_r == SplitN(nevr, 3, "-")
         IN  IF Len(n_ev_r) # 3 THEN Err(NevraError)
             ELSE LET r == n_ev_r[3]
                      ev == n_ev_r[2]
                      n == n_ev_r[1]
                      e_v == EpochVersion(ev)
                  IN  Ok(<<n, e_v[1], e_v[2], r, a>>)

parse_nevra(nevra) ==
    LET nevr_a == RSplitN(nevra, 2, ".") IN
    IF Len(nevr_a) # 2 THEN Err(NevraError)
    ELSE LET a == nevr_a[1]
             nevr == nevr_a[2]
             n_ev_r == RSplitN(nevr, 3, "-")
         IN  IF Len(n_ev_r) # 3 THEN Err(NevraError)
             ELSE LET r == n_ev_r[1]
                      ev == n_ev_r[2]
                      n == n_ev_r[3]
                      e_v == EpochVersion(ev)
                  IN  Ok(<<n, e_v[1], e_v[2], r, a>>)

parse_filename(nevrax) ==
    LET nevra_x == RSplitN(nevrax, 2, ".") IN
    IF Len(nevra_x) # 2 THEN Err(DnfError)
    ELSE parse_nevra(nevra_x[2])

parse_nvr(nvr) ==
    LET n_v_r == RSplitN(nvr, 3, "-") IN
    IF Len(n_v_r) # 3 THEN Err(NevraError)
    ELSE Ok(<<n_v_r[3], n_v_r[2], n_v_r[1]>>)

----------------------------------------------------------------------------
(* Data of main().                                                         *)

\* Option<T>
None == [some |-> FALSE]
Some(v) == [some |-> TRUE, val |-> v]

\* A value that was moved out of its binding.
Moved == [moved |-> TRUE]

\* struct NVR, compared field by field (derive PartialEq)
NVR(n, v, r) == [n |-> n, v |-> v, r |-> r]

Me == <<"m", "e">>
You == <<"y", "o", "u">>
Foo == <<"f", "o", "o">>
Bar == <<"b", "a", "r">>

FooInstalled == Foo \o <<"-", "1", ".", "0", "-", "1">>
FooNew == Foo \o <<"-", "1", ".", "1", "-", "1">>
BarBuild == Bar \o <<"-", "2", "-", "1">>
\* a build reference with no '-' at all
BadBuild == Foo

SrcRpm == <<".", "s", "r", "c", ".", "r", "p", "m">>
\* a line of dnf output that is no file name ("foo.rpm")
BadLine == Foo \o <<".", "r", "p", "m">>

\* ~/.config/fedora.toml: unreadable or unparsable, or both tables present
ConfigFiles ==
    {None} \cup
    {Some([username |-> u, interests |-> i]) : u \in {<<>>, Me}, i \in {<<>>, <<Foo>>}}

\* --username takes one value; the positional interests, when given, are
\* one or more values.
CliArgs ==
    {[username |-> u, interests |-> i] :
        u \in {None, Some(Me)}, i \in {None, Some(<<Bar>>)}}

\* rpm --eval %{fedora}: did not run or exited non-zero, or printed the number
RpmOutcomes == {None, Some(<<"4", "0", "\n">>)}

RECURSIVE SeqsUpTo(_, _)
SeqsUpTo(S, n) ==
    IF n = 0 THEN {<<>>}
    ELSE LET shorter == SeqsUpTo(S, n - 1)
         IN  shorter \cup {Append(s, x) : s \in shorter, x \in S}

\* dnf repoquery --installed --source: failed, or printed up to MaxLines lines,
\* with or without the final newline
DnfOutcomes ==
    {None} \cup
    {Some(Join(lines, <<"\n">>) \o nl) :
        lines \in SeqsUpTo({FooInstalled \o SrcRpm, BarBuild \o SrcRpm, BadLine}, MaxLines),
        nl \in {<<>>, <<"\n">>}}

\* Author and comments of an update record.
Authorships ==
    {[user |-> You, comments |-> None],
     [user |-> Me, comments |-> None],
     [user |-> You, comments |-> Some(<<You>>)],
     [user |-> You, comments |-> Some(<<Me, You>>)]}

\* The builds of an update record: up to MaxBuilds well-formed references, or
\* a malformed one.
BuildLists ==
    (SeqsUpTo({FooInstalled, FooNew, BarBuild}, MaxBuilds) \ {<<>>}) \cup {<<BadBuild>>}

\* Aliases are unique; bodhi does not answer in alias order.
Alias(i) == <<"U", <<"1", "0", "2", "4">>[i]>>

RECURSIVE UpdateLists(_)
UpdateLists(n) ==
    IF n = 0 THEN {<<>>}
    ELSE LET shorter == UpdateLists(n - 1)
         IN  shorter \cup
             {Append(us, [alias |-> Alias(n), user |-> a.user,
                          comments |-> a.comments, builds |-> b]) :
                 us \in {s \in shorter : Len(s) = n - 1},
                 a \in Authorships, b \in BuildLists}

\* the query failed, or answered with up to MaxUpdates records
BodhiOutcomes == {None} \cup {Some(us) : us \in UpdateLists(MaxUpdates)}

NoUsername == "No FAS username was specified."
NoInterests == "No interests were specified."
RpmFailed == "Failed to run rpm."
DnfFailed == "Failed to query dnf."
BodhiFailed == "bodhi query failed"

----------------------------------------------------------------------------
(* main(), up to the query of bodhi.                                       *)

Init ==
    /\ pc = "start"
    /\ error = ""
    /\ config = None
    /\ matches = [username |-> None, interests |-> None]
    /\ username = None
    /\ interests = None
    /\ release = <<>>
    /\ packages = <<>>
    /\ fetched = <<>>
    /\ updates = <<>>
    /\ relevant_updates = <<>>
    /\ installed_packages = <<>>
    /\ pending_updates = <<>>
    /\ notifications = <<>>
    /\ console = <<>>
    /\ input = <<>>
    /\ fields = <<>>
    /\ call = "none"
    /\ parsed = Err("")

\* main.rs:200-202: the command line and the configuration file are read.
ReadInputs ==
    /\ pc = "start"
    /\ \E m \in CliArgs, c \in ConfigFiles :
          /\ matches' = m
          /\ config' = c
    /\ pc' = "merge"
    /\ UNCHANGED <<error, username, interests, release, packages, fetched,
                   updates, relevant_updates, installed_packages,
                   pending_updates, notifications, console>>
    /\ UNCHANGED parseVars

\* main.rs:204-220: the file's user name, overridden by --username.
MergedUsername(cfg, m) ==
    IF m.username.some THEN m.username
    ELSE IF cfg.some THEN Some(cfg.val.username)
    ELSE None

\* MergedInterests falling back to no interests when neither source has any
MergedInterests_DefaultEmpty(cfg, m) ==
    LET file == IF cfg.some THEN Some(cfg.val.interests) ELSE Some(<<>>) IN
    IF m.interests.some
    THEN Some(file.val \o m.interests.val)
    ELSE file

\* main.rs:205-230: the file's interests, the command line's appended.
MergedInterests(cfg, m) ==
    LET file == IF cfg.some THEN Some(cfg.val.interests) ELSE None IN
    IF m.interests.some
    THEN IF file.some THEN Some(file.val \o m.interests.val) ELSE m.interests
    ELSE file

\* main.rs:204-244
MergeConfig ==
    /\ pc = "merge"
    /\ username' = MergedUsername(config, matches)
    /\ interests' = MergedInterests(config, matches)
    /\ config' = Moved
    /\ IF ~username'.some THEN pc' = "exit_err" /\ error' = NoUsername
       ELSE IF ~interests'.some THEN pc' = "exit_err" /\ error' = NoInterests
       ELSE pc' = "release" /\ error' = error
    /\ UNCHANGED <<matches, release, packages, fetched, updates,
                   relevant_updates, installed_packages, pending_updates,
                   notifications, console>>
    /\ UNCHANGED parseVars

\* main.rs:138-167, called at main.rs:247
GetRelease ==
    /\ pc = "release"
    /\ \E out \in RpmOutcomes :
          IF ~out.some
          THEN pc' = "exit_err" /\ error' = RpmFailed /\ release' = release
          ELSE pc' = "dnf" /\ error' = error /\ release' = <<"F">> \o Trim(out.val)
    /\ UNCHANGED <<config, matches, username, interests, packages, fetched,
                   updates, relevant_updates, installed_packages,
                   pending_updates, notifications, console>>
    /\ UNCHANGED parseVars

\* main.rs:283-287: the lines parsed in order, the first failure returned.
RECURSIVE ParseLines(_)
ParseLines(lines) ==
    IF lines = <<>> THEN Ok(<<>>)
    ELSE LET first == parse_filename(lines[1]) IN
         IF ~first.ok THEN first
         ELSE LET rest == ParseLines(Tail(lines)) IN
              IF ~rest.ok THEN rest
              ELSE Ok(<<NVR(first.val[1], first.val[3], first.val[4])>> \o rest.val)

\* main.rs:249-287
ListPackages ==
    /\ pc = "dnf"
    /\ \E out \in DnfOutcomes :
          IF ~out.some
          THEN pc' = "exit_err" /\ error' = DnfFailed /\ packages' = packages
          ELSE LET lines == Split(Trim(out.val), "\n")
                   result == ParseLines(lines)
               IN  IF ~result.ok
                   THEN pc' = "exit_err" /\ error' = result.err /\ packages' = packages
                   ELSE pc' = "bodhi" /\ error' = error /\ packages' = result.val
    /\ UNCHANGED <<config, matches, username, interests, release, fetched,
                   updates, relevant_updates, installed_packages,
                   pending_updates, notifications, console>>
    /\ UNCHANGED parseVars

\* main.rs:289-307
QueryBodhi ==
    /\ pc = "bodhi"
    /\ \E answer \in BodhiOutcomes :
          IF ~answer.some
          THEN pc' = "exit_err" /\ error' = BodhiFailed /\ fetched' = fetched
          ELSE pc' = "filter" /\ error' = error /\ fetched' = answer.val
    /\ UNCHANGED <<config, matches, username, interests, release, packages,
                   updates, relevant_updates, installed_packages,
                   pending_updates, notifications, console>>
    /\ UNCHANGED parseVars

----------------------------------------------------------------------------
(* main(): the filters and the two classifications.                        *)

\* main.rs:312
AuthoredBy(update, name) == update.user = name

\* CommentedBy with the flag overwritten by every comment (commented =
\* comment.user.name == username at main.rs:322-324): the last comment decides
CommentedBy_LastOnly(update, name) ==
    /\ update.comments.some
    /\ update.comments.val # <<>>
    /\ update.comments.val[Len(update.comments.val)] = name

\* main.rs:318-325; no comment list: not commented
CommentedBy(update, name) ==
    /\ update.comments.some
    /\ \E i \in 1..Len(update.comments.val) : update.comments.val[i] = name

\* main.rs:309-313
FilterAuthored(us, name) ==
    LET keep(update) == ~AuthoredBy(update, name) IN SelectSeq(us, keep)

\* main.rs:315-333
FilterCommented(us, name) ==
    LET keep(update) == ~CommentedBy(update, name) IN SelectSeq(us, keep)

\* main.rs:309-333
FilterUpdates ==
    /\ pc = "filter"
    /\ updates' = FilterAuthored(fetched, username.val)
    /\ relevant_updates' = FilterCommented(updates', username.val)
    /\ pc' = "feedback"
    /\ UNCHANGED <<error, config, matches, username, interests, release,
                   packages, fetched, installed_packages, pending_updates,
                   notifications, console>>
    /\ UNCHANGED parseVars

\* main.rs:340-343: the builds parsed in order, the first failure returned.
RECURSIVE ParseBuilds(_)
ParseBuilds(builds) ==
    IF builds = <<>> THEN Ok(<<>>)
    ELSE LET first == parse_nvr(builds[1]) IN
         IF ~first.ok THEN first
         ELSE LET rest == ParseBuilds(Tail(builds)) IN
              IF ~rest.ok THEN rest
              ELSE Ok(<<NVR(first.val[1], first.val[2], first.val[3])>> \o rest.val)

\* Vec::contains with NVRs compared by name alone
InPackages_ByName(pkgs, nvr) == \E i \in 1..Len(pkgs) : pkgs[i].n = nvr.n

\* Vec::contains
InPackages(pkgs, nvr) == \E i \in 1..Len(pkgs) : pkgs[i] = nvr

\* k copies of x
RECURSIVE Repeat(_, _)
Repeat(x, k) == IF k = 0 THEN <<>> ELSE <<x>> \o Repeat(x, k - 1)

\* main.rs:336-350: an update is pushed once for each of its builds that is
\* installed.
RECURSIVE InstalledUpdates(_, _)
InstalledUpdates(us, pkgs) ==
    IF us = <<>> THEN Ok(<<>>)
    ELSE LET nvrs == ParseBuilds(us[1].builds) IN
         IF ~nvrs.ok THEN nvrs
         ELSE LET hits == Cardinality({i \in 1..Len(nvrs.val) : InPackages(pkgs, nvrs.val[i])})
                  rest == InstalledUpdates(Tail(us), pkgs)
              IN  IF ~rest.ok THEN rest
                  ELSE Ok(Repeat(us[1], hits) \o rest.val)

\* main.rs:353-359: the name of every build of every pushed update.
RECURSIVE BuildNames(_)
BuildNames(us) ==
    IF us = <<>> THEN Ok(<<>>)
    ELSE LET nvrs == ParseBuilds(us[1].builds) IN
         IF ~nvrs.ok THEN nvrs
         ELSE LET rest == BuildNames(Tail(us)) IN
              IF ~rest.ok THEN rest
              ELSE Ok([i \in 1..Len(nvrs.val) |-> nvrs.val[i].n] \o rest.val)

\* Stable insertion of the keyed item x into the sorted sequence s, after the
\* items whose key is not greater.
RECURSIVE InsertByKey(_, _)
InsertByKey(s, x) ==
    IF s = <<>> THEN <<x>>
    ELSE IF StrLess(x.key, s[1].key) THEN <<x>> \o s
    ELSE <<s[1]>> \o InsertByKey(Tail(s), x)

\* slice::sort_by on a string key (stable); s holds [key, item] records
RECURSIVE SortByKey(_)
SortByKey(s) ==
    IF s = <<>> THEN <<>>
    ELSE InsertByKey(SortByKey(SubSeq(s, 1, Len(s) - 1)), s[Len(s)])

\* Vec::dedup_by on key equality: of consecutive items with the same key the
\* first is kept.
RECURSIVE DedupByKey(_)
DedupByKey(s) ==
    IF Len(s) <= 1 THEN s
    ELSE LET front == DedupByKey(SubSeq(s, 1, Len(s) - 1)) IN
         IF s[Len(s)].key = front[Len(front)].key THEN front
         ELSE Append(front, s[Len(s)])

Items(s) == [i \in 1..Len(s) |-> s[i].item]

\* SortDedupNames without the dedup_by of main.rs:363
SortNames_NoDedup(names) ==
    Items(SortByKey([i \in 1..Len(names) |-> [key |-> names[i], item |-> names[i]]]))

\* main.rs:361-363
SortDedupNames(names) ==
    Items(DedupByKey(SortByKey([i \in 1..Len(names) |->
                                   [key |-> names[i], item |-> names[i]]])))

\* main.rs:335-363
FeedbackPending(relevant, pkgs) ==
    LET installed_updates == InstalledUpdates(relevant, pkgs) IN
    IF ~installed_updates.ok THEN installed_updates
    ELSE LET names == BuildNames(installed_updates.val) IN
         IF ~names.ok THEN names
         ELSE Ok(SortDedupNames(names.val))

\* main.rs:335-363
CollectFeedback ==
    /\ pc = "feedback"
    /\ LET result == FeedbackPending(relevant_updates, packages) IN
          IF ~result.ok
          THEN /\ pc' = "exit_err"
               /\ error' = result.err
               /\ installed_packages' = installed_packages
          ELSE /\ pc' = "report_feedback"
               /\ error' = error
               /\ installed_packages' = result.val
    /\ UNCHANGED <<config, matches, username, interests, release, packages,
                   fetched, updates, relevant_updates, pending_updates,
                   notifications, console>>
    /\ UNCHANGED parseVars

\* main.rs:368-372 and 447-451
Url(rel, names) ==
    [base |-> "https://bodhi.fedoraproject.org/updates/",
     release |-> rel, status |-> "testing", packages |-> Join(names, <<",">>)]

\* println!
Line(text, arg) == [text |-> text, arg |-> arg]

FeedbackSummary == "Installed updates are ready for feedback"
FeedbackHeader == "Installed updates are ready for feedback:"
NoFeedback == "No updates for installed packages are waiting for feedback."
ExpectFailed == "Unable to send desktop notification."

\* ReportFeedback with the result of show() ignored (no expect at
\* main.rs:380): the summary follows whether the notification was displayed
\* or not
ReportFeedback_ShowIgnored ==
    /\ pc = "report_feedback"
    /\ \E shown \in BOOLEAN :
          IF installed_packages = <<>>
          THEN /\ console' = console \o <<Line("", <<>>), Line(NoFeedback, <<>>)>>
               /\ notifications' = notifications
          ELSE LET url == Url(release, installed_packages) IN
               /\ notifications' =
                     IF shown
                     THEN Append(notifications, [summary |-> FeedbackSummary, body |-> url])
                     ELSE notifications
               /\ console' =
                     console
                     \o <<Line("", <<>>), Line(FeedbackHeader, <<>>)>>
                     \o [i \in 1..Len(installed_packages) |->
                            Line("- ", installed_packages[i])]
                     \o <<Line("Feedback URL: ", url.packages)>>
    /\ pc' = "pending"
    /\ error' = error
    /\ UNCHANGED <<config, matches, username, interests, release, packages,
                   fetched, updates, relevant_updates, installed_packages,
                   pending_updates>>
    /\ UNCHANGED parseVars

\* main.rs:365-389
ReportFeedback ==
    /\ pc = "report_feedback"
    /\ \E shown \in BOOLEAN :
          IF installed_packages = <<>>
          THEN /\ console' = console \o <<Line("", <<>>), Line(NoFeedback, <<>>)>>
               /\ notifications' = notifications
               /\ pc' = "pending"
               /\ error' = error
          ELSE IF ~shown
          THEN /\ console' = Append(console, Line("", <<>>))
               /\ notifications' = notifications
               /\ pc' = "panic"
               /\ error' = ExpectFailed
          ELSE LET url == Url(release, installed_packages) IN
               /\ notifications' =
                     Append(notifications, [summary |-> FeedbackSummary, body |-> url])
               /\ console' =
                     console
                     \o <<Line("", <<>>), Line(FeedbackHeader, <<>>)>>
                     \o [i \in 1..Len(installed_packages) |->
                            Line("- ", installed_packages[i])]
                     \o <<Line("Feedback URL: ", url.packages)>>
               /\ pc' = "pending"
               /\ error' = error
    /\ UNCHANGED <<config, matches, username, interests, release, packages,
                   fetched, updates, relevant_updates, installed_packages,
                   pending_updates>>
    /\ UNCHANGED parseVars

\* main.rs:411-418
IsInstalled(pending_nvrs, pkgs) ==
    \E i \in 1..Len(pending_nvrs), j \in 1..Len(pkgs) : pending_nvrs[i].n = pkgs[j].n

\* main.rs:421-428
IsInteresting(pending_nvrs, ints) ==
    \E i \in 1..Len(pending_nvrs), k \in 1..Len(ints) : ints[k] = pending_nvrs[i].n

\* Pushes with either flag sufficing (|| for && at main.rs:430)
Pushes_EitherFlag(pending_nvrs, pkgs, ints) ==
    IF IsInstalled(pending_nvrs, pkgs) \/ IsInteresting(pending_nvrs, ints)
    THEN Cardinality({i \in 1..Len(pending_nvrs) : ~InPackages(pkgs, pending_nvrs[i])})
    ELSE 0

\* main.rs:405-436: how often the update owning pending_nvrs is pushed: once
\* for each of its builds that is not installed, when both flags are set.
Pushes(pending_nvrs, pkgs, ints) ==
    IF IsInstalled(pending_nvrs, pkgs) /\ IsInteresting(pending_nvrs, ints)
    THEN Cardinality({i \in 1..Len(pending_nvrs) : ~InPackages(pkgs, pending_nvrs[i])})
    ELSE 0

\* main.rs:396-437
RECURSIVE PushedUpdates(_, _, _)
PushedUpdates(us, pkgs, ints) ==
    IF us = <<>> THEN Ok(<<>>)
    ELSE LET pending_nvrs == ParseBuilds(us[1].builds) IN
         IF ~pending_nvrs.ok THEN pending_nvrs
         ELSE LET rest == PushedUpdates(Tail(us), pkgs, ints) IN
              IF ~rest.ok THEN rest
              ELSE Ok(Repeat(us[1], Pushes(pending_nvrs.val, pkgs, ints)) \o rest.val)

\* main.rs:439-441
SortDedupByAlias(us) ==
    Items(DedupByKey(SortByKey([i \in 1..Len(us) |->
                                   [key |-> us[i].alias, item |-> us[i]]])))

\* main.rs:396-441
InterestingPending(relevant, pkgs, ints) ==
    LET pushed == PushedUpdates(relevant, pkgs, ints) IN
    IF ~pushed.ok THEN pushed ELSE Ok(SortDedupByAlias(pushed.val))

\* main.rs:391-441
CollectPending ==
    /\ pc = "pending"
    /\ IF interests.val = <<>>
       THEN /\ pc' = "exit_ok"
            /\ error' = error
            /\ pending_updates' = pending_updates
       ELSE LET result == InterestingPending(relevant_updates, packages, interests.val) IN
            IF ~result.ok
            THEN /\ pc' = "exit_err"
                 /\ error' = result.err
                 /\ pending_updates' = pending_updates
            ELSE /\ pc' = "report_pending"
                 /\ error' = error
                 /\ pending_updates' = result.val
    /\ UNCHANGED <<config, matches, username, interests, release, packages,
                   fetched, updates, relevant_updates, installed_packages,
                   notifications, console>>
    /\ UNCHANGED parseVars

PendingSummary == "Updates for interesting packages are available for testing."
PendingHeader == "Updates for interesting packages are available for testing:"
NoPending == "No updates for interesting packages are available."
UnwrapFailed == "called Result::unwrap() on an Err value"

\* main.rs:464-474: the alias of each update, then its builds
RECURSIVE UpdateLines(_)
UpdateLines(us) ==
    IF us = <<>> THEN <<>>
    ELSE <<Line("- ", us[1].alias)>>
         \o [i \in 1..Len(us[1].builds) |-> Line("  - ", us[1].builds[i])]
         \o UpdateLines(Tail(us))

\* main.rs:443-483
ReportPending ==
    /\ pc = "report_pending"
    /\ \E shown \in BOOLEAN :
          IF interests.val = <<>> \/ pending_updates = <<>>
          THEN /\ console' =
                     IF interests.val # <<>>
                     THEN console \o <<Line("", <<>>), Line(NoPending, <<>>)>>
                     ELSE console
               /\ notifications' = notifications
               /\ pc' = "exit_ok"
               /\ error' = error
          ELSE IF ~shown
          THEN /\ console' = Append(console, Line("", <<>>))
               /\ notifications' = notifications
               /\ pc' = "panic"
               /\ error' = UnwrapFailed
          ELSE /\ notifications' =
                     Append(notifications,
                            [summary |-> PendingSummary,
                             body |-> Url(release, interests.val)])
               /\ console' =
                     console
                     \o <<Line("", <<>>), Line(PendingHeader, <<>>)>>
                     \o UpdateLines(pending_updates)
                     \o <<Line("Install the relevant updates with:", <<>>),
                          Line("sudo dnf upgrade --enablerepo=updates-testing --advisory=UPDATE_TITLE", <<>>)>>
               /\ pc' = "exit_ok"
               /\ error' = error
    /\ UNCHANGED <<config, matches, username, interests, release, packages,
                   fetched, updates, relevant_updates, installed_packages,
                   pending_updates>>
    /\ UNCHANGED parseVars

Next ==
    \/ ReadInputs
    \/ MergeConfig
    \/ GetRelease
    \/ ListPackages
    \/ QueryBodhi
    \/ FilterUpdates
    \/ CollectFeedback
    \/ ReportFeedback
    \/ CollectPending
    \/ ReportPending

Spec == Init /\ [][Next]_vars

----------------------------------------------------------------------------
(* The parsers on their own.                                               *)

\* a letter and the three delimiters the parsers cut at
ParseAlphabet == {"a", "-", ".", ":"}

\* name-epoch:version-release.arch.ext
Format(f) ==
    f.name \o <<"-">> \o f.epoch \o <<":">> \o f.version \o <<"-">> \o f.release
    \o <<".">> \o f.arch \o <<".">> \o f.ext

\* The characters each part of a valid file name may hold: the name any,
\* epoch and version no '-' and no ':', the release no '-', architecture and
\* extension no '.'.
PartAlphabets ==
    <<ParseAlphabet,
      ParseAlphabet \ {"-", ":"},
      ParseAlphabet \ {"-", ":"},
      ParseAlphabet \ {"-"},
      ParseAlphabet \ {"."},
      ParseAlphabet \ {"."}>>

\* The tuples of parts k..6 with at most `budget` characters in all.
RECURSIVE Parts(_, _)
Parts(k, budget) ==
    IF k > Len(PartAlphabets) THEN {<<>>}
    ELSE UNION {{<<s>> \o rest : rest \in Parts(k + 1, budget - Len(s))} :
                   s \in StringsUpTo(PartAlphabets[k], budget)}

\* The parts of the valid file names with a non-empty name and at most
\* MaxPartsLen characters besides the five delimiters.
ValidFields ==
    {[name |-> p[1], epoch |-> p[2], version |-> p[3], release |-> p[4],
      arch |-> p[5], ext |-> p[6]] :
        p \in {q \in Parts(1, MaxPartsLen) : q[1] # <<>>}}

ParserIdle ==
    /\ pc = "parsers"
    /\ error = ""
    /\ config = None
    /\ matches = [username |-> None, interests |-> None]
    /\ username = None
    /\ interests = None
    /\ release = <<>>
    /\ packages = <<>>
    /\ fetched = <<>>
    /\ updates = <<>>
    /\ relevant_updates = <<>>
    /\ installed_packages = <<>>
    /\ pending_updates = <<>>
    /\ notifications = <<>>
    /\ console = <<>>
    /\ call = "none"
    /\ parsed = Err("")

\* any string
InitParse ==
    /\ ParserIdle
    /\ input \in StringsUpTo(ParseAlphabet, MaxLen)
    /\ fields = None

\* "foo-bar-1:2.3-4.fc40.x86_64.rpm"
ExampleFields ==
    [name |-> <<"f", "o", "o", "-", "b", "a", "r">>,
     epoch |-> <<"1">>,
     version |-> <<"2", ".", "3">>,
     release |-> <<"4", ".", "f", "c", "4", "0">>,
     arch |-> <<"x", "8", "6", "_", "6", "4">>,
     ext |-> <<"r", "p", "m">>]

\* a formatted file name
InitRoundTrip ==
    /\ ParserIdle
    /\ \E f \in ValidFields \cup {ExampleFields} :
          /\ fields = Some(f)
          /\ input = Format(f)

ParseFilename ==
    /\ call = "none"
    /\ call' = "parse_filename"
    /\ parsed' = parse_filename(input)
    /\ UNCHANGED <<input, fields>>
    /\ UNCHANGED mainVars

ParseNevra ==
    /\ call = "none"
    /\ call' = "parse_nevra"
    /\ parsed' = parse_nevra(input)
    /\ UNCHANGED <<input, fields>>
    /\ UNCHANGED mainVars

ParseNvr ==
    /\ call = "none"
    /\ call' = "parse_nvr"
    /\ parsed' = parse_nvr(input)
    /\ UNCHANGED <<input, fields>>
    /\ UNCHANGED mainVars

NextParse == ParseFilename \/ ParseNevra \/ ParseNvr

SpecParse == InitParse /\ [][NextParse]_vars

SpecRoundTrip == InitRoundTrip /\ [][NextParse]_vars

----------------------------------------------------------------------------
(* Properties of the update classifier.                                    *)

\* main() is past the two filters.
Filtered ==
    pc \in {"feedback", "report_feedback", "pending", "report_pending",
            "exit_ok", "panic"}

\* main() has computed the feedback-pending names.
FeedbackCollected ==
    pc \in {"report_feedback", "pending", "report_pending", "exit_ok", "panic"}

\* main() has computed the interesting-pending records.
PendingCollected ==
    \/ pc = "report_pending"
    \/ pc \in {"exit_ok", "panic"} /\ interests.val # <<>>

\* The records of us that are neither authored nor commented on by name, in
\* the order of us.
RECURSIVE NotYetHandled(_, _)
NotYetHandled(us, name) ==
    IF us = <<>> THEN <<>>
    ELSE LET u == us[1]
             mine == u.user = name
             commented == IF u.comments.some
                          THEN name \in {u.comments.val[i] : i \in 1..Len(u.comments.val)}
                          ELSE FALSE
         IN  IF mine \/ commented THEN NotYetHandled(Tail(us), name)
             ELSE <<u>> \o NotYetHandled(Tail(us), name)

\* C5: after the authorship and the commented filter, relevant_updates is
\* the fetched list without the records the user authored and without the
\* records that have a comment of the user, order kept; a record without a
\* comment list passes the commented filter.
C5_RelevantUpdates ==
    Filtered => relevant_updates = NotYetHandled(fetched, username.val)

\* C5, its case: of two fetched records with an installed build, the one of
\* the user is dropped, and the one without a comment list is kept.
C5_Witness ==
    /\ pc = "feedback"
    /\ Len(fetched) = 2
    /\ fetched[1].user = username.val
    /\ fetched[1].builds = <<FooInstalled>>
    /\ fetched[2].comments = None
    /\ InPackages(packages, NVR(Foo, <<"1", ".", "0">>, <<"1">>))
    /\ relevant_updates = <<fetched[2]>>

\* The (name, version, release) of a build reference.
Triple(build) ==
    LET p == parse_nvr(build) IN NVR(p.val[1], p.val[2], p.val[3])

\* Some build of the record is installed with that very version and release.
HasInstalledBuild(u, pkgs) ==
    \E i \in 1..Len(u.builds), j \in 1..Len(pkgs) : Triple(u.builds[i]) = pkgs[j]

\* The names of all builds of the relevant records with an installed build.
FeedbackNames ==
    UNION {{Triple(u.builds[i]).n : i \in 1..Len(u.builds)} :
              u \in {relevant_updates[k] :
                        k \in {k \in 1..Len(relevant_updates) :
                                  HasInstalledBuild(relevant_updates[k], packages)}}}

\* C1: the feedback-pending list is strictly ascending in byte order (sorted,
\* no name twice) and holds exactly the names of all builds of the relevant
\* records that have an installed build.
C1_FeedbackPending ==
    FeedbackCollected =>
        /\ \A i \in 1..(Len(installed_packages) - 1) :
              StrLess(installed_packages[i], installed_packages[i + 1])
        /\ {installed_packages[i] : i \in 1..Len(installed_packages)} = FeedbackNames

\* C1, its case: two relevant records with the installed foo build, one of
\* them with a second build, and a third name nowhere: foo is listed once,
\* after bar.
C1_Witness ==
    /\ pc = "report_feedback"
    /\ Len(relevant_updates) = 2
    /\ relevant_updates[1].builds = <<FooInstalled, BarBuild>>
    /\ relevant_updates[2].builds = <<FooInstalled>>
    /\ packages = <<NVR(Foo, <<"1", ".", "0">>, <<"1">>)>>
    /\ installed_packages = <<Bar, Foo>>

\* The scenario of C2: foo-1.0-1 is all that is installed, the one relevant
\* record is U1 with the build foo-1.1-1, there are no interests, and the run
\* is over.
C2_Scenario ==
    /\ pc = "exit_ok"
    /\ packages = <<NVR(Foo, <<"1", ".", "0">>, <<"1">>)>>
    /\ Len(relevant_updates) = 1
    /\ relevant_updates[1].alias = <<"U", "1">>
    /\ relevant_updates[1].builds = <<FooNew>>
    /\ interests.val = <<>>

\* C2 as stated: in the scenario feedback_pending is ["foo"] and
\* interesting_pending is [].
C2_Original ==
    C2_Scenario => installed_packages = <<Foo>> /\ pending_updates = <<>>

\* C2 as amended: in the scenario feedback_pending is [] (foo-1.1-1 is not
\* installed) and interesting_pending is [].
C2_Amended ==
    C2_Scenario => installed_packages = <<>> /\ pending_updates = <<>>

\* C2, its case: the scenario has run, without a notification.
C2_Witness ==
    /\ C2_Scenario
    /\ notifications = <<>>
    /\ console = <<Line("", <<>>), Line(NoFeedback, <<>>)>>

\* The names of the installed packages.
InstalledNames == {packages[j].n : j \in 1..Len(packages)}

\* The package names the user watches.
InterestNames == {interests.val[k] : k \in 1..Len(interests.val)}

BuildsOf(u) == {u.builds[i] : i \in 1..Len(u.builds)}

PendingRecords == {pending_updates[k] : k \in 1..Len(pending_updates)}

\* C3 as stated: no record of interesting_pending has a build that is
\* installed with that very version and release.
C3_NoInstalledBuild ==
    PendingCollected =>
        \A u \in PendingRecords : ~HasInstalledBuild(u, packages)

\* C4 as stated: every record of interesting_pending has one build whose name
\* is both the name of an installed package and an interest.
C4_Original ==
    PendingCollected =>
        \A u \in PendingRecords :
            \E b \in BuildsOf(u) :
                Triple(b).n \in InstalledNames /\ Triple(b).n \in InterestNames

\* C4 as amended: every record of interesting_pending has a build whose name
\* is the name of an installed package, a build (the same or another one)
\* whose name is an interest, and a build that is not installed with that
\* very version and release.
C4_Amended ==
    PendingCollected =>
        \A u \in PendingRecords :
            /\ \E b \in BuildsOf(u) : Triple(b).n \in InstalledNames
            /\ \E b \in BuildsOf(u) : Triple(b).n \in InterestNames
            /\ \E b \in BuildsOf(u) : ~InPackages(packages, Triple(b))

\* C4, its case: a record is interesting-pending through two builds, foo
\* installed in another version and not watched, bar watched and not
\* installed.
C4_Witness ==
    /\ pc = "report_pending"
    /\ InstalledNames = {Foo}
    /\ InterestNames = {Bar}
    /\ \E u \in PendingRecords : u.builds = <<FooNew, BarBuild>>

----------------------------------------------------------------------------
(* Properties of the configuration stage.                                  *)

ConfigErrors == {NoUsername, NoInterests}

\* Nothing was queried and nothing was written.
NothingQueried ==
    /\ release = <<>>
    /\ packages = <<>>
    /\ fetched = <<>>
    /\ notifications = <<>>
    /\ console = <<>>

\* A run that failed stays where it failed.
FailureIsFinal == [][pc = "exit_err" => pc' = "exit_err"]_vars

\* The user name after the merge: the command line's if given, else the
\* file's; absent or "".
NoMergedUsername ==
    IF matches.username.some THEN matches.username.val = <<>>
    ELSE IF config.some THEN config.val.username = <<>>
    ELSE TRUE

\* C9 as stated: the merge fails exactly when the merged user name is absent
\* or empty, whatever the interests are, and a failed run has queried nothing.
C9_Original ==
    /\ [][pc = "merge" => (pc' = "exit_err" <=> NoMergedUsername)]_vars
    /\ [](pc = "exit_err" /\ error \in ConfigErrors => NothingQueried)
    /\ FailureIsFinal

\* C9 as amended: the merge fails exactly when the configuration file could
\* not be read and the command line lacks the user name or the interests (so
\* exactly when the merged user name or the merged interests list is absent);
\* an empty user name and an empty interests list do not make it fail; and a
\* failed run has queried nothing.
C9_Amended ==
    /\ [][pc = "merge" =>
            (pc' = "exit_err" <=>
                /\ ~config.some
                /\ ~matches.username.some \/ ~matches.interests.some)]_vars
    /\ [](pc = "exit_err" /\ error \in ConfigErrors => NothingQueried)
    /\ FailureIsFinal

\* C9, its case: the run failed at the configuration stage although the
\* command line gave a user name: no file and no interests.
C9_Witness ==
    /\ pc = "exit_err"
    /\ error = NoInterests
    /\ username = Some(Me)
    /\ matches.username = Some(Me)
    /\ interests = None

----------------------------------------------------------------------------
(* Properties of the reports.                                              *)

Printed(texts) == \E i \in 1..Len(console) : console[i].text \in texts

\* the summary of the feedback-pending result is on the console
FeedbackPrinted == Printed({FeedbackHeader, NoFeedback})

\* the summary of the interesting-pending result is on the console
PendingPrinted == Printed({PendingHeader, NoPending})

\* C10 as stated: a run that classified has printed the summary of the
\* feedback-pending result and, with interests, of the interesting-pending
\* result when it ends, whether the notifications were displayed or not.
C10_Original ==
    pc \in {"exit_ok", "panic"} =>
        /\ FeedbackPrinted
        /\ interests.val # <<>> => PendingPrinted

\* C10 as amended: a run that ends normally has printed the summary of the
\* feedback-pending result and, with interests, of the interesting-pending
\* result; a notification is sent only for a non-empty result, before its
\* summary, and when its display fails the run panics there, with neither
\* that summary nor anything after it printed.
C10_Amended ==
    /\ pc = "exit_ok" =>
          /\ FeedbackPrinted
          /\ interests.val # <<>> => PendingPrinted
    /\ pc = "panic" /\ error = ExpectFailed =>
          /\ installed_packages # <<>>
          /\ ~FeedbackPrinted
          /\ ~PendingPrinted
          /\ notifications = <<>>
    /\ pc = "panic" /\ error = UnwrapFailed =>
          /\ pending_updates # <<>>
          /\ FeedbackPrinted
          /\ ~PendingPrinted
    /\ pc = "panic" => error \in {ExpectFailed, UnwrapFailed}
    /\ Printed({FeedbackHeader}) =>
          \E i \in 1..Len(notifications) : notifications[i].summary = FeedbackSummary
    /\ Printed({PendingHeader}) =>
          \E i \in 1..Len(notifications) : notifications[i].summary = PendingSummary

\* C10, its case: there were names to report, the first notification could
\* not be displayed, and the run ended without their summary.
C10_Witness ==
    /\ pc = "panic"
    /\ error = ExpectFailed
    /\ installed_packages = <<Bar, Foo>>
    /\ console = <<Line("", <<>>)>>

----------------------------------------------------------------------------
(* Properties of the identifier parsers.                                   *)

\* C6: parse_filename returns the name, epoch, version, release and
\* architecture a valid file name was formatted from.
C6_RoundTrip ==
    call = "parse_filename" =>
        parsed = Ok(<<fields.val.name, fields.val.epoch, fields.val.version,
                      fields.val.release, fields.val.arch>>)

\* C6, its case: "foo-bar-1:2.3-4.fc40.x86_64.rpm", a name with a hyphen, was
\* parsed.
C6_Witness ==
    /\ call = "parse_filename"
    /\ fields = Some(ExampleFields)
    /\ parsed.ok
    /\ parsed.val[1] = <<"f", "o", "o", "-", "b", "a", "r">>

\* The text before the first c of s, and all the text after it.
Before(s, c) ==
    SubSeq(s, 1, (CHOOSE k \in 1..Len(s) : s[k] = c /\ \A j \in 1..(k - 1) : s[j] # c) - 1)
After(s, c) ==
    SubSeq(s, (CHOOSE k \in 1..Len(s) : s[k] = c /\ \A j \in 1..(k - 1) : s[j] # c) + 1, Len(s))

\* The epoch_or_version part of an accepted name-[epoch:]version-release.arch:
\* what lies between the last two '-' before the last '.'.
Middle(nevra) == RSplitN(RSplitN(nevra, 2, ".")[2], 3, "-")[2]

\* C7 as stated: for an input parse_nevra accepts, with a ':' in the middle
\* part the epoch is the text before the first ':' and the version is all the
\* text after it; without one the epoch is "0" and the version is the middle
\* part.
C7_EpochVersion ==
    call = "parse_nevra" /\ parsed.ok =>
        LET ev == Middle(input) IN
        IF Contains(ev, ":")
        THEN parsed.val[2] = Before(ev, ":") /\ parsed.val[3] = After(ev, ":")
        ELSE parsed.val[2] = <<"0">> /\ parsed.val[3] = ev

\* C8 as stated: whenever a parser returns Ok, the name, the version and the
\* release it returns are not empty.
C8_NonEmptyFields ==
    /\ call \in {"parse_filename", "parse_nevra"} /\ parsed.ok =>
          parsed.val[1] # <<>> /\ parsed.val[3] # <<>> /\ parsed.val[4] # <<>>
    /\ call = "parse_nvr" /\ parsed.ok =>
          parsed.val[1] # <<>> /\ parsed.val[2] # <<>> /\ parsed.val[3] # <<>>

====
